---- MODULE Spec2Model ----
(***************************************************************************)
(* A model of sidequest's src/main.rs: the journal store (one JSON file,   *)
(* read whole at start-up, truncated and rewritten by add), the --from /   *)
(* --to date filter of list and summary, and the daily summary.            *)
(*                                                                         *)
(* Text is a sequence of one-character strings, an instant is a number of  *)
(* seconds since the epoch (the precision the ts_seconds format stores),   *)
(* and the local time zone is a zone with at most one offset transition.   *)
(* The file system is taken to complete every open, read and write.        *)
(***************************************************************************)
EXTENDS Integers, Sequences, FiniteSets, TLC

VARIABLES
    file,      \* the store file: [kind, entries, size]
    tz,        \* the process's local time zone (Local)
    cmd,       \* the invocation being run: [name, input, now, from, to]
    status,    \* "idle" (no invocation), "ok" (returned from main), "panic"
    out,       \* the lines written to stdout by the invocation
    filtered,  \* main's filtered_entries when the invocation ended
    pre,       \* the store file as the invocation found it
    log,       \* the entries created by add so far, in invocation order
    pc,        \* concurrent adds: each process's position in main
    mem,       \* concurrent adds: each process's `entries` vector
    mine,      \* concurrent adds: the entry each process pushed
    snap,      \* concurrent adds: what each process loaded
    saw,       \* concurrent adds: rewrites completed when the process loaded
    order      \* concurrent adds: the processes in the order their rewrite completed

vars == <<file, tz, cmd, status, out, filtered, pre, log, pc, mem, mine, snap, saw, order>>

seqVars == <<cmd, status, out, filtered, pre, log>>
concVars == <<pc, mem, mine, snap, saw, order>>

-----------------------------------------------------------------------------
(* Bounds and program constants *)

MaxEntries == 3

SecsPerDay == 86400

Hour == 60 * 60

-----------------------------------------------------------------------------
(* Text *)

Lower == <<"a","b","c","d","e","f","g","h","i","j","k","l","m",
           "n","o","p","q","r","s","t","u","v","w","x","y","z">>

Upper == <<"A","B","C","D","E","F","G","H","I","J","K","L","M",
           "N","O","P","Q","R","S","T","U","V","W","X","Y","Z">>

\* char::to_uppercase: an iterator of characters (one lowercase character can
\* uppercase to several: the sharp s, written "sz" here, gives "SS").
to_uppercase(c) ==
    IF \E i \in 1..Len(Lower) : Lower[i] = c
    THEN << Upper[CHOOSE i \in 1..Len(Lower) : Lower[i] = c] >>
    ELSE IF c = "sz" THEN <<"S", "S">> ELSE <<c>>

capitalize_all(s) ==
    IF s = <<>> THEN <<>>
    ELSE to_uppercase(Head(s)) \o [i \in 1..(Len(s) - 1) |-> to_uppercase(s[i + 1])[1]]

capitalize(s) ==
    IF s = <<>> THEN <<>> ELSE to_uppercase(Head(s)) \o Tail(s)

RECURSIVE Join(_)
\* cli.input.join(" ")
Join(ws) ==
    IF ws = <<>> THEN <<>>
    ELSE IF Len(ws) = 1 THEN ws[1]
    ELSE ws[1] \o <<" ">> \o Join(Tail(ws))

-----------------------------------------------------------------------------
(* Entries and the daily summary *)

to_daily(val) ==
    [timestamp |-> val.timestamp - (val.timestamp % SecsPerDay),
     message   |-> val.message]

merge_plain(self, entry) ==
    [self EXCEPT !.message = self.message \o <<".", " ">> \o capitalize(entry.message)]

merge(self, entry) ==
    [self EXCEPT !.message =
        capitalize(self.message) \o <<".", " ">> \o capitalize(entry.message)]

\* The body of the for_each at main.rs:183: merge into the day's entry, or insert.
Upsert(dailies, e) ==
    IF e.timestamp \in DOMAIN dailies
    THEN [dailies EXCEPT ![e.timestamp] = merge(@, e)]
    ELSE [k \in (DOMAIN dailies) \cup {e.timestamp} |->
            IF k = e.timestamp THEN e ELSE dailies[k]]

RECURSIVE Dailies(_)
\* The HashMap after the for_each over filtered_entries, in their order.
Dailies(es) ==
    IF es = <<>> THEN [k \in {} |-> 0]
    ELSE Upsert(Dailies(SubSeq(es, 1, Len(es) - 1)), to_daily(es[Len(es)]))

RECURSIVE Descending(_)
Descending(S) ==
    IF S = {} THEN <<>>
    ELSE LET hi == CHOOSE x \in S : \A y \in S : y <= x
         IN <<hi>> \o Descending(S \ {hi})

RECURSIVE sort_by_key(_)
\* sorted.sort_by_key(|a| a.0): the keys of the map, ascending.
sort_by_key(S) ==
    IF S = {} THEN <<>>
    ELSE LET lo == CHOOSE x \in S : \A y \in S : x <= y
         IN <<lo>> \o sort_by_key(S \ {lo})

-----------------------------------------------------------------------------
(* The local time zone and parse_date *)

None == [some |-> FALSE, val |-> 0]

Some(v) == [some |-> TRUE, val |-> v]

\* The offset of local time from UTC at instant t.
offset_at(zone, t) == IF t < zone.at THEN zone.before ELSE zone.after

\* NaiveDateTime::and_local_timezone: the instants whose local time is `naive`.
and_local_timezone(naive, zone) ==
    LET c1 == naive - zone.before
        c2 == naive - zone.after
        ok1 == c1 < zone.at
        ok2 == c2 >= zone.at
    IN  IF ok1 /\ ok2 THEN [kind |-> "Ambiguous", val |-> c1]
        ELSE IF ok1 THEN [kind |-> "Single", val |-> c1]
        ELSE IF ok2 THEN [kind |-> "Single", val |-> c2]
        ELSE [kind |-> "None", val |-> 0]

\* The two parse_from_str attempts, "%Y-%m-%d %H:%M" on the string and on the
\* string followed by " 0:0", first success wins. A string is [dateOk, day,
\* hasTime, timeOk, secs]: its date part (a day number when valid) and its
\* optional time part (seconds into the day when valid).
parse_naive(s) ==
    LET naive_date_time ==
            IF s.dateOk /\ s.hasTime /\ s.timeOk
            THEN Some(s.day * SecsPerDay + s.secs) ELSE None
        naive_date ==
            IF s.dateOk /\ ~s.hasTime THEN Some(s.day * SecsPerDay) ELSE None
    IN  IF naive_date_time.some THEN naive_date_time ELSE naive_date

parse_date(date, zone) ==
    IF ~date.given THEN None
    ELSE LET date_time == parse_naive(date.str)
         IN  IF ~date_time.some THEN None
             ELSE LET r == and_local_timezone(date_time.val, zone)
                  IN  IF r.kind = "Single" THEN Some(r.val) ELSE None

-----------------------------------------------------------------------------
(* The filter of list and summary *)

Ok(es) == [ok |-> TRUE, es |-> es]

Panic == [ok |-> FALSE, es |-> <<>>]

retain_from_strict(es, from, zone) ==
    IF ~from.given \/ es = <<>> THEN Ok(es)
    ELSE LET d == parse_date(from, zone)
         IN  IF d.some THEN Ok(SelectSeq(es, LAMBDA e : e.timestamp > d.val))
             ELSE Panic

\* if from.is_some() { retain(|e| e.timestamp >= parse_date(from).expect(..)) }:
\* the closure, and so parse_date and its expect, runs once per element.
retain_from(es, from, zone) ==
    IF ~from.given \/ es = <<>> THEN Ok(es)
    ELSE LET d == parse_date(from, zone)
         IN  IF d.some THEN Ok(SelectSeq(es, LAMBDA e : e.timestamp >= d.val))
             ELSE Panic

\* if to.is_some() { retain(|e| e.timestamp <= parse_date(to).expect(..)) }
retain_to(es, to, zone) ==
    IF ~to.given \/ es = <<>> THEN Ok(es)
    ELSE LET d == parse_date(to, zone)
         IN  IF d.some THEN Ok(SelectSeq(es, LAMBDA e : e.timestamp <= d.val))
             ELSE Panic

\* The two retains in sequence; a panic in the first ends the process.
Filter(es, from, to, zone) ==
    LET a == retain_from(es, from, zone)
    IN  IF a.ok THEN retain_to(a.es, to, zone) ELSE Panic

-----------------------------------------------------------------------------
(* Output *)

\* println!("{}: {}", local_time, entry.message) for each filtered entry.
ListLines(es, zone) ==
    [i \in 1..Len(es) |->
        [at      |-> es[i].timestamp,
         shown   |-> es[i].timestamp + offset_at(zone, es[i].timestamp),
         message |-> es[i].message]]

SummaryLinesUnsorted(es, zone) ==
    LET dailies == Dailies(es)
        sorted  == Descending(DOMAIN dailies)
    IN  [i \in 1..Len(sorted) |->
            [at      |-> sorted[i],
             shown   |-> (sorted[i] + offset_at(zone, sorted[i])) \div SecsPerDay,
             message |-> dailies[sorted[i]].message]]

\* println!("{}: {}", local_time.format("%Y-%m-%d"), value.message) for each
\* day of the map in key order; `shown` is the local date of the key.
SummaryLines(es, zone) ==
    LET dailies == Dailies(es)
        sorted  == sort_by_key(DOMAIN dailies)
    IN  [i \in 1..Len(sorted) |->
            [at      |-> sorted[i],
             shown   |-> (sorted[i] + offset_at(zone, sorted[i])) \div SecsPerDay,
             message |-> dailies[sorted[i]].message]]

-----------------------------------------------------------------------------
(* The store file *)

MissingFile == [kind |-> "missing", entries |-> <<>>, size |-> 0]

EmptyFile == [kind |-> "empty", entries |-> <<>>, size |-> 0]

RECURSIVE Digits(_)
Digits(n) == IF n < 10 THEN 1 ELSE 1 + Digits(n \div 10)

\* {"timestamp":N,"message":"..."}
EntryLen(e) == 13 + Digits(e.timestamp) + 12 + Len(e.message) + 2

RECURSIVE SumLen(_)
SumLen(es) == IF es = <<>> THEN 0 ELSE EntryLen(Head(es)) + SumLen(Tail(es))

\* The length of the JSON array serde_json writes for `es`.
ArrayLen(es) == 2 + SumLen(es) + (IF es = <<>> THEN 0 ELSE Len(es) - 1)

get_ajour_file_truncating(f, clear) == EmptyFile

\* OpenOptions read, write, create, truncate(clear): the file after the open.
get_ajour_file(f, clear) ==
    IF clear \/ f.kind = "missing" THEN EmptyFile ELSE f

LoadLenient(f) == f.entries

\* serde_json::from_reader, Err(_) => vec![]: only a file that is one JSON
\* array of entries yields them. A corrupt file's `entries` are the entries
\* its bytes begin with.
Load(f) == IF f.kind = "json" THEN f.entries ELSE <<>>

push_front(entries, e) == <<e>> \o entries

\* entries.push(Entry { .. })
push(entries, e) == Append(entries, e)

\* serde_json::to_writer through the BufWriter: the array is written at offset
\* 0 of the file as it is when the buffer is flushed; bytes of the file beyond
\* the array stay, and the content is then no JSON array.
to_writer(f, es) ==
    IF f.size <= ArrayLen(es)
    THEN [kind |-> "json", entries |-> es, size |-> ArrayLen(es)]
    ELSE [kind |-> "corrupt", entries |-> es, size |-> f.size]

-----------------------------------------------------------------------------
(* Inputs: the command lines, the clock readings and the zones explored *)

Buy  == <<"b", "u", "y">>
Milk == <<"m", "i", "l", "k">>
Walk == <<"w", "a", "l", "k">>
Dog  == <<"d", "o", "g">>

BuyMilk == <<"b","u","y"," ","m","i","l","k">>
WalkDog == <<"w","a","l","k"," ","d","o","g">>

\* cli.input: no text, "buy milk", "walk dog".
Inputs == { <<>>, <<Buy, Milk>>, <<Walk, Dog>> }

\* Utc::now() is the wall clock, which may be set back between invocations:
\* day 1 at 00:00 and 23:00, day 2 at 10:00, day 3 at 10:00 (UTC).
Times == { 1 * SecsPerDay,
           1 * SecsPerDay + 23 * Hour,
           2 * SecsPerDay + 10 * Hour,
           3 * SecsPerDay + 10 * Hour }

\* UTC; a fixed UTC+2; a zone whose clocks go back from UTC+2 to UTC+1 on day
\* 2 at 01:00 UTC (local 02:00 to 03:00 of day 2 happens twice); a zone whose
\* clocks go forward from UTC+1 to UTC+2 then (local 02:00 to 03:00 is skipped).
Zones == { [before |-> 0,        after |-> 0,        at |-> 0],
           [before |-> 2 * Hour, after |-> 2 * Hour, at |-> 0],
           [before |-> 2 * Hour, after |-> Hour,     at |-> 2 * SecsPerDay + Hour],
           [before |-> Hour,     after |-> 2 * Hour, at |-> 2 * SecsPerDay + Hour] }

DateOnly(d) ==
    [dateOk |-> TRUE, day |-> d, hasTime |-> FALSE, timeOk |-> FALSE, secs |-> 0]

DateTime(d, s) ==
    [dateOk |-> TRUE, day |-> d, hasTime |-> TRUE, timeOk |-> TRUE, secs |-> s]

\* A string such as "2024-13-40".
BadDate ==
    [dateOk |-> FALSE, day |-> 0, hasTime |-> FALSE, timeOk |-> FALSE, secs |-> 0]

DateStrs == { DateOnly(1), DateTime(2, 2 * Hour + 30 * 60), DateOnly(3), BadDate }

NoArg == [given |-> FALSE, str |-> BadDate]

\* Option<String>: --from / --to absent, or one of the strings.
Args == {NoArg} \cup { [given |-> TRUE, str |-> s] : s \in DateStrs }

NoCmd == [name |-> "none", input |-> <<>>, now |-> 0, from |-> NoArg, to |-> NoArg]

\* A store file cut short: one entry's bytes without the closing bracket.
CorruptFile ==
    LET es == << [timestamp |-> 1 * SecsPerDay, message |-> BuyMilk] >>
    IN  [kind |-> "corrupt", entries |-> es, size |-> ArrayLen(es) - 1]

Procs == {1, 2}

-----------------------------------------------------------------------------
(* One invocation at a time: each action is a whole run of main *)

Init ==
    /\ file \in {MissingFile, CorruptFile}
    /\ tz \in Zones
    /\ cmd = NoCmd
    /\ status = "idle"
    /\ out = <<>>
    /\ filtered = <<>>
    /\ pre = file
    /\ log = <<>>
    /\ pc = [p \in Procs |-> "off"]
    /\ mem = [p \in Procs |-> <<>>]
    /\ mine = [p \in Procs |-> <<>>]
    /\ snap = [p \in Procs |-> <<>>]
    /\ saw = [p \in Procs |-> 0]
    /\ order = <<>>

\* Commands::Add {} | None (main.rs:123-145)
Add(input, now) ==
    /\ status = "idle"
    /\ LET opened  == get_ajour_file(file, FALSE)
           entries == Load(opened)
           e       == [timestamp |-> now, message |-> Join(input)]
       IN  IF input # <<>>
           THEN /\ Len(entries) < MaxEntries
                /\ file' = to_writer(get_ajour_file(opened, TRUE), push(entries, e))
                /\ log' = Append(log, e)
           ELSE /\ file' = opened
                /\ log' = log
    /\ cmd' = [name |-> "add", input |-> input, now |-> now, from |-> NoArg, to |-> NoArg]
    /\ status' = "ok"
    /\ out' = <<>>
    /\ filtered' = <<>>
    /\ pre' = file
    /\ UNCHANGED <<tz, concVars>>

\* Commands::List { from, to } (main.rs:123-128, 146-165)
List(from, to) ==
    /\ status = "idle"
    /\ LET opened == get_ajour_file(file, FALSE)
           r      == Filter(Load(opened), from, to, tz)
       IN  /\ file' = opened
           /\ status' = IF r.ok THEN "ok" ELSE "panic"
           /\ filtered' = r.es
           /\ out' = IF r.ok THEN ListLines(r.es, tz) ELSE <<>>
    /\ cmd' = [name |-> "list", input |-> <<>>, now |-> 0, from |-> from, to |-> to]
    /\ pre' = file
    /\ UNCHANGED <<tz, log, concVars>>

\* Commands::Summary { from, to } (main.rs:123-128, 166-198); clap refuses a
\* --to without a --from (requires = "from").
Summary(from, to) ==
    /\ status = "idle"
    /\ to.given => from.given
    /\ LET opened == get_ajour_file(file, FALSE)
           r      == Filter(Load(opened), from, to, tz)
       IN  /\ file' = opened
           /\ status' = IF r.ok THEN "ok" ELSE "panic"
           /\ filtered' = r.es
           /\ out' = IF r.ok THEN SummaryLines(r.es, tz) ELSE <<>>
    /\ cmd' = [name |-> "summary", input |-> <<>>, now |-> 0, from |-> from, to |-> to]
    /\ pre' = file
    /\ UNCHANGED <<tz, log, concVars>>

\* The process ends; the next invocation starts from the store file alone.
Exit ==
    /\ status # "idle"
    /\ cmd' = NoCmd
    /\ status' = "idle"
    /\ out' = <<>>
    /\ filtered' = <<>>
    /\ pre' = file
    /\ UNCHANGED <<file, tz, log, concVars>>

AddStep == \E input \in Inputs : \E now \in (IF input = <<>> THEN {0} ELSE Times) : Add(input, now)

ListStep == \E from \in Args : \E to \in Args : List(from, to)

SummaryStep == \E from \in Args : \E to \in Args : Summary(from, to)

Next == AddStep \/ ListStep \/ SummaryStep \/ Exit

Spec == Init /\ [][Next]_vars

-----------------------------------------------------------------------------
(* The daily summary over stores of richer text: Init draws the store *)

\* "", "buy milk", "Walk dog", and a text that starts with the sharp s.
AggMessages == { <<>>, BuyMilk, <<"W","a","l","k"," ","d","o","g">>, <<"sz", "a">> }

AggTimes == { 1 * SecsPerDay + 23 * Hour, 2 * SecsPerDay + 10 * Hour }

AggEntries == [timestamp : AggTimes, message : AggMessages]

InitAgg ==
    /\ \E n \in 1..MaxEntries : \E es \in [1..n -> AggEntries] :
          /\ file = to_writer(EmptyFile, es)
          /\ log = es
    /\ tz \in Zones
    /\ cmd = NoCmd
    /\ status = "idle"
    /\ out = <<>>
    /\ filtered = <<>>
    /\ pre = file
    /\ pc = [p \in Procs |-> "off"]
    /\ mem = [p \in Procs |-> <<>>]
    /\ mine = [p \in Procs |-> <<>>]
    /\ snap = [p \in Procs |-> <<>>]
    /\ saw = [p \in Procs |-> 0]
    /\ order = <<>>

NextAgg == SummaryStep \/ Exit

SpecAgg == InitAgg /\ [][NextAgg]_vars

-----------------------------------------------------------------------------
(* Two add invocations as concurrent processes: one action per system call *)

Stored == << [timestamp |-> 1 * SecsPerDay, message |-> WalkDog] >>

\* "buy milk" and "dog": arrays of different lengths.
ConcInputs == { <<Buy, Milk>>, <<Dog>> }

InitConc ==
    /\ file \in {MissingFile, to_writer(EmptyFile, Stored)}
    /\ tz \in Zones
    /\ cmd = NoCmd
    /\ status = "idle"
    /\ out = <<>>
    /\ filtered = <<>>
    /\ pre = file
    /\ log = <<>>
    /\ pc = [p \in Procs |-> "start"]
    /\ mem = [p \in Procs |-> <<>>]
    /\ mine = [p \in Procs |-> <<>>]
    /\ snap = [p \in Procs |-> <<>>]
    /\ saw = [p \in Procs |-> 0]
    /\ order = <<>>

\* main.rs:123-128: open without truncation, read and parse the whole file.
CLoad(p) ==
    /\ pc[p] = "start"
    /\ file' = get_ajour_file(file, FALSE)
    /\ mem' = [mem EXCEPT ![p] = Load(file')]
    /\ snap' = [snap EXCEPT ![p] = Load(file')]
    /\ saw' = [saw EXCEPT ![p] = Len(order)]
    /\ pc' = [pc EXCEPT ![p] = "loaded"]
    /\ UNCHANGED <<tz, mine, order, seqVars>>

\* main.rs:131-136: push the new entry, open with truncation.
COpen(p, input, now) ==
    /\ pc[p] = "loaded"
    /\ LET e == [timestamp |-> now, message |-> Join(input)]
       IN  /\ mem' = [mem EXCEPT ![p] = push(mem[p], e)]
           /\ mine' = [mine EXCEPT ![p] = e]
    /\ file' = get_ajour_file(file, TRUE)
    /\ pc' = [pc EXCEPT ![p] = "opened"]
    /\ UNCHANGED <<tz, snap, saw, order, seqVars>>

\* main.rs:137-143: the BufWriter's one write, at offset 0 of the file as it is.
CWrite(p) ==
    /\ pc[p] = "opened"
    /\ file' = to_writer(file, mem[p])
    /\ order' = Append(order, p)
    /\ pc' = [pc EXCEPT ![p] = "done"]
    /\ UNCHANGED <<tz, mem, mine, snap, saw, seqVars>>

CLoadStep == \E p \in Procs : CLoad(p)

COpenStep == \E p \in Procs : \E input \in ConcInputs : \E now \in Times : COpen(p, input, now)

CWriteStep == \E p \in Procs : CWrite(p)

NextConc == CLoadStep \/ COpenStep \/ CWriteStep

SpecConc == InitConc /\ [][NextConc]_vars

-----------------------------------------------------------------------------
(* Properties *)

AddWithText == cmd.name = "add" /\ cmd.input # <<>>

Reading == cmd.name \in {"list", "summary"}

Created == [timestamp |-> cmd.now, message |-> Join(cmd.input)]

UtcDay(t) == t \div SecsPerDay

LocalDay(t) == (t + offset_at(tz, t)) \div SecsPerDay

UtcDays(es) == { UtcDay(es[i].timestamp) : i \in 1..Len(es) }

\* A supplied bound that does not parse to a single instant.
BadBound(a) == a.given /\ ~parse_date(a, tz).some

\* F <= e.timestamp <= T, a bound that is not given imposing nothing.
InRange(e, F, T) ==
    /\ F.some => F.val <= e.timestamp
    /\ T.some => e.timestamp <= T.val

\* The first character uppercased, the rest as it is.
FirstUpper(m) == IF m = <<>> THEN <<>> ELSE to_uppercase(m[1]) \o SubSeq(m, 2, Len(m))

\* The messages of the entries of `es` on the UTC day that starts at `key`.
DayMessages(es, key) ==
    LET on == SelectSeq(es, LAMBDA e : UtcDay(e.timestamp) * SecsPerDay = key)
    IN  [i \in 1..Len(on) |-> on[i].message]

RECURSIVE Sentences(_)
\* FirstUpper(m1) ". " FirstUpper(m2) ". " ... FirstUpper(mk)
Sentences(ms) ==
    IF Len(ms) = 1 THEN FirstUpper(ms[1])
    ELSE Sentences(SubSeq(ms, 1, Len(ms) - 1)) \o <<".", " ">> \o FirstUpper(ms[Len(ms)])

\* C1: run one at a time, the invocations keep the store equal to the entries
\* the adds with text created, in invocation order; an add with text leaves
\* what was stored as a prefix and puts exactly its one entry after it.
C1_StoreIsTheAppendLog ==
    /\ Load(file) = log
    /\ (status # "idle" /\ AddWithText) =>
           /\ file.kind = "json"
           /\ Load(file) = Append(Load(pre), Created)

\* C1 witness: a third add has run, and the stored order is not the order of
\* the timestamps.
C1_Witness ==
    /\ status = "ok" /\ AddWithText
    /\ Len(Load(file)) = 3
    /\ Load(file)[1].timestamp > Load(file)[2].timestamp
    /\ Load(file)[3] = Created

\* C2: when the process that rewrote the store last had loaded it before the
\* other's rewrite, the store it leaves is its own snapshot and entry (or no
\* JSON array at all): the first writer's entry is lost, and neither process
\* has reported anything.
C2_StaleWriterDropsTheOther ==
    \A p \in Procs : \A q \in Procs \ {p} :
        (order = <<p, q>> /\ saw[q] = 0) =>
            /\ pc[p] = "done" /\ pc[q] = "done"
            /\ Load(file) \in { <<>>, Append(snap[q], mine[q]) }
            /\ Len(Load(file)) < Len(snap[q]) + 2

\* C2 witness: both adds are done, the store is a JSON array that ends with
\* the second writer's entry and holds the first writer's entry nowhere.
C2_Witness ==
    \E p \in Procs : \E q \in Procs \ {p} :
        /\ order = <<p, q>> /\ pc[p] = "done" /\ pc[q] = "done"
        /\ file.kind = "json"
        /\ Len(file.entries) = 2
        /\ file.entries[2] = mine[q]
        /\ \A i \in 1..Len(file.entries) : file.entries[i] # mine[p]

\* C3: with bounds that parse, list and summary keep exactly the stored entries
\* inside the inclusive range, in store order, and list prints them in that order.
C3_FilterIsTheInclusiveRange ==
    (status = "ok" /\ Reading /\ ~BadBound(cmd.from) /\ ~BadBound(cmd.to)) =>
        LET F == parse_date(cmd.from, tz)
            T == parse_date(cmd.to, tz)
        IN  /\ filtered = SelectSeq(Load(pre), LAMBDA e : InRange(e, F, T))
            /\ cmd.name = "list" =>
                   /\ Len(out) = Len(filtered)
                   /\ \A i \in 1..Len(out) :
                          /\ out[i].at = filtered[i].timestamp
                          /\ out[i].message = filtered[i].message

\* C3 witness: a list with both bounds drops one of three entries, keeps one
\* that is exactly at the lower bound, and prints the later entry first.
C3_Witness ==
    /\ status = "ok" /\ cmd.name = "list"
    /\ cmd.from.given /\ cmd.to.given
    /\ Len(Load(pre)) = 3 /\ Len(out) = 2
    /\ out[1].at > out[2].at
    /\ out[2].at = parse_date(cmd.from, tz).val

\* C4: a supplied bound that does not parse to a single instant ends list and
\* summary with a failure and no output, whatever the store holds.
C4_BadBoundIsFatal ==
    (status # "idle" /\ Reading /\ (BadBound(cmd.from) \/ BadBound(cmd.to))) =>
        /\ status = "panic"
        /\ out = <<>>

\* C5 as amended: a UTC day with two surviving entries, m1 then m2 in store
\* order, is summarized in one line as FirstUpper(m1), ". ", FirstUpper(m2),
\* with nothing after it.
C5_PairMergesWithoutFinalPeriod ==
    (status = "ok" /\ cmd.name = "summary") =>
        \A d \in UtcDays(filtered) :
            LET ms == DayMessages(filtered, d * SecsPerDay)
                on == { i \in 1..Len(out) : out[i].at = d * SecsPerDay }
            IN  Len(ms) = 2 =>
                    /\ Cardinality(on) = 1
                    /\ \A i \in on :
                           out[i].message =
                               FirstUpper(ms[1]) \o <<".", " ">> \o FirstUpper(ms[2])

\* C5 witness: "buy milk" then "walk dog" on one UTC day give "Buy milk. Walk dog".
C5_Witness ==
    /\ status = "ok" /\ cmd.name = "summary"
    /\ Len(filtered) = 2
    /\ filtered[1].timestamp < filtered[2].timestamp
    /\ filtered[1].message = BuyMilk /\ filtered[2].message = WalkDog
    /\ Len(out) = 1
    /\ out[1].message =
         <<"B","u","y"," ","m","i","l","k",".", " ","W","a","l","k"," ","d","o","g">>

\* C5 as stated: the one line of such a day ends with a final ".".
C5_PairMergesWithFinalPeriod ==
    (status = "ok" /\ cmd.name = "summary") =>
        \A d \in UtcDays(filtered) :
            LET ms == DayMessages(filtered, d * SecsPerDay)
                on == { i \in 1..Len(out) : out[i].at = d * SecsPerDay }
            IN  Len(ms) = 2 =>
                    /\ Cardinality(on) = 1
                    /\ \A i \in on :
                           out[i].message =
                               FirstUpper(ms[1]) \o <<".", " ">> \o FirstUpper(ms[2])
                                   \o <<".">>

\* C6: from an empty store, two adds at instants of one local calendar day and
\* then a summary without bounds print exactly one line, in every zone.
C6_SameLocalDayOneLine ==
    (status = "ok" /\ cmd.name = "summary" /\ ~cmd.from.given /\ ~cmd.to.given
        /\ Len(log) = 2 /\ Load(pre) = log
        /\ LocalDay(log[1].timestamp) = LocalDay(log[2].timestamp)) =>
        Len(out) = 1

\* C7: a summary prints one line for each UTC day that has a surviving entry,
\* in strictly ascending order of the day's instant.
C7_OneLinePerUtcDayAscending ==
    (status = "ok" /\ cmd.name = "summary") =>
        /\ Len(out) = Cardinality(UtcDays(filtered))
        /\ { out[i].at : i \in 1..Len(out) } = { d * SecsPerDay : d \in UtcDays(filtered) }
        /\ \A i \in 1..Len(out) : \A j \in 1..Len(out) : i < j => out[i].at < out[j].at

\* C7 witness: three surviving entries stored latest first, three lines.
C7_Witness ==
    /\ status = "ok" /\ cmd.name = "summary"
    /\ Len(filtered) = 3 /\ Len(out) = 3
    /\ filtered[1].timestamp > filtered[2].timestamp
    /\ filtered[2].timestamp > filtered[3].timestamp
    /\ out[1].at = UtcDay(filtered[3].timestamp) * SecsPerDay

\* C8: a list, a summary (ended normally or by a panic) and an add without
\* text leave the store file as it was; a missing file is created empty.
C8_OnlyAddWithTextRewrites ==
    (status # "idle" /\ ~AddWithText) =>
        /\ Load(file) = Load(pre)
        /\ file.entries = pre.entries
        /\ file = (IF pre.kind = "missing" THEN EmptyFile ELSE pre)

\* C8 witness: a summary that panicked on a bound over a store of two entries.
C8_Witness ==
    /\ status = "panic" /\ cmd.name = "summary"
    /\ Len(Load(pre)) = 2
    /\ file = pre

\* C9: on a store file that is no JSON array every invocation returns
\* normally; list and summary keep and print nothing; an add with text leaves
\* a store of exactly its one entry.
C9_UnparseableStoreIsEmpty ==
    (status # "idle" /\ pre.kind # "json") =>
        /\ status = "ok"
        /\ filtered = <<>>
        /\ out = <<>>
        /\ AddWithText => (file.kind = "json" /\ file.entries = <<Created>>)

\* C9 witness: an add with text over the cut-short file.
C9_Witness ==
    /\ status = "ok" /\ AddWithText
    /\ pre = CorruptFile
    /\ file.kind = "json" /\ Len(file.entries) = 1

\* C10: the message of a day's line is the one message unchanged when one
\* entry of the day survived, and otherwise FirstUpper of each message in store
\* order joined by ". "; FirstUpper of the empty text is empty, and applying it
\* to a merged message again changes nothing.
C10_MergedMessage ==
    (status = "ok" /\ cmd.name = "summary") =>
        \A i \in 1..Len(out) :
            LET ms == DayMessages(filtered, out[i].at)
            IN  /\ Len(ms) >= 1
                /\ out[i].message = (IF Len(ms) = 1 THEN ms[1] ELSE Sentences(ms))
                /\ Len(ms) >= 2 => capitalize(out[i].message) = out[i].message
                /\ \A k \in 1..Len(ms) : ms[k] = <<>> => capitalize(ms[k]) = <<>>

\* C10 witness: three entries of one day, the second with empty text, the
\* third starting with the sharp s.
C10_Witness ==
    /\ status = "ok" /\ cmd.name = "summary"
    /\ Len(filtered) = 3 /\ Len(out) = 1
    /\ filtered[1].message = BuyMilk
    /\ filtered[2].message = <<>>
    /\ filtered[3].message = <<"sz", "a">>
    /\ out[1].message =
         <<"B","u","y"," ","m","i","l","k",".", " ",".", " ","S","S","a">>

====
